---- MODULE Spec2Model ----
(***************************************************************************)
(* A model of src/main.py: the Lexer (tokenize) and the recursive-descent  *)
(* Parser (consume, parse_points, parse_rectangle, parse_triangle,         *)
(* parse_line, parse) with its point registry built_points.                *)
(*                                                                         *)
(* Conventions.                                                            *)
(*  - A string of the program is a sequence of one-character strings.      *)
(*  - TLA+ strings are ASCII, so a Cyrillic letter is written as its Latin *)
(*    transliteration, one model character per Cyrillic letter; the        *)
(*    capital letter that starts three keywords is written "P_".  No model *)
(*    character of a keyword is in A..Z, as no Cyrillic letter is.         *)
(*  - pos is 0-based as in the source: Python's tokens[pos] is             *)
(*    tokens[pos + 1] here.                                                *)
(*  - Coordinates are integers: the NUMBER lexemes of the parser's inputs  *)
(*    are integer literals and the fallback source is sampled at integer   *)
(*    values, on which the float arithmetic of the source is exact.        *)
(***************************************************************************)
EXTENDS Integers, Sequences, FiniteSets, TLC

VARIABLES
    tokens,        \* Parser.tokens
    pos,           \* Parser.pos
    built_points,  \* Parser.built_points: name -> PointNode
    nodes,         \* parse's local list nodes
    points,        \* parse_points' local list points
    pc,            \* where the parser is: "top", "points", "done", "failed"
    err,           \* the exception that ended the parse, NoErr if none
    result,        \* what parse returned, NoResult while it has not returned
    text,          \* Lexer.text
    lexer_tokens,  \* Lexer.tokens: (token_type, value, start) triples
    calls,         \* how many times tokenize was called on the Lexer object
    first_out,     \* what the first call of tokenize returned
    last_out       \* what the latest call of tokenize returned

parser_vars == <<tokens, pos, built_points, nodes, points, pc, err, result>>
lexer_vars == <<text, lexer_tokens, calls, first_out, last_out>>
vars == <<tokens, pos, built_points, nodes, points, pc, err, result,
          text, lexer_tokens, calls, first_out, last_out>>

----------------------------------------------------------------------------
(* Bounds of the model. *)

\* the number of statement fragments an input token sequence is made of
MaxChunks == 3
\* the number of lexical pieces an input text is made of
MaxPieces == 3
\* the number of tokenize calls on one Lexer object
MaxCalls == 2

----------------------------------------------------------------------------
(* Small helpers. *)

Abs(n) == IF n < 0 THEN -n ELSE n

Range(s) == {s[i] : i \in 1..Len(s)}

RECURSIVE Concat(_)
Concat(ss) == IF ss = <<>> THEN <<>> ELSE Head(ss) \o Concat(Tail(ss))

----------------------------------------------------------------------------
(* Tokens, lexemes and the parser's inputs. *)

TokenTypes == {"PLACE", "POINT", "BUILD", "RECTANGLE", "TRIANGLE", "CONNECT",
               "LINE", "ID", "LPAREN", "RPAREN", "COMMA", "NUMBER", "DOT"}

\* a token as tokenize returns it: (token_type, value)
Tok(token_type, value) == [type |-> token_type, value |-> value]

\* the lexemes of the keyword and punctuation tokens of the inputs
kwPlace == <<"P_", "o", "s", "t", "a", "v", "y", "t", "y">>
kwPoint == <<"t", "o", "ch", "k", "u">>
kwBuild == <<"P_", "o", "b", "u", "d", "u", "v", "a", "t", "y">>
kwRectangle == <<"p", "r", "ya", "m", "o", "k", "u", "t", "n", "y", "k">>
kwTriangle == <<"t", "r", "y", "k", "u", "t", "n", "y", "k">>
kwConnect == <<"P_", "r", "o", "v", "e", "s", "t", "y">>
kwLine == <<"v", "i", "d", "r", "i", "z", "o", "k">>

PLACE == Tok("PLACE", kwPlace)
POINT == Tok("POINT", kwPoint)
BUILD == Tok("BUILD", kwBuild)
RECTANGLE == Tok("RECTANGLE", kwRectangle)
TRIANGLE == Tok("TRIANGLE", kwTriangle)
CONNECT == Tok("CONNECT", kwConnect)
LINE == Tok("LINE", kwLine)
LPAREN == Tok("LPAREN", <<"(">>)
RPAREN == Tok("RPAREN", <<")">>)
COMMA == Tok("COMMA", <<",">>)
DOT == Tok("DOT", <<".">>)
ID(c) == Tok("ID", <<c>>)
NUMBER(lexeme) == Tok("NUMBER", lexeme)

\* POINT name ( x , y )
Decl(c, x, y) == <<POINT, ID(c), LPAREN, NUMBER(x), COMMA, NUMBER(y), RPAREN>>

\* The statement fragments the input token sequences are made of: whole
\* statements, statements cut short, and single tokens that continue or break
\* the statement before them.
Chunks ==
    { <<PLACE>> \o Decl("A", <<"1">>, <<"1">>) \o <<COMMA>>
          \o Decl("B", <<"3">>, <<"1">>) \o <<COMMA>>
          \o Decl("C", <<"3">>, <<"3">>) \o <<DOT>>,
      <<PLACE>> \o Decl("C", <<"-", "1">>, <<"1">>),
      <<PLACE, POINT, ID("A"), DOT, LPAREN, NUMBER(<<"2">>)>>,
      <<PLACE, POINT, ID("A")>>,
      <<POINT, ID("B")>>,
      <<PLACE>>,
      <<COMMA>>,
      <<DOT>>,
      <<BUILD>>,
      <<BUILD, TRIANGLE, ID("A"), ID("B"), ID("C")>>,
      <<BUILD, TRIANGLE, ID("A"), ID("B")>>,
      <<BUILD, RECTANGLE, ID("A"), ID("B"), ID("C"), ID("A")>>,
      <<BUILD, RECTANGLE, ID("A"), ID("B")>>,
      <<CONNECT, LINE, ID("A"), COMMA, ID("B")>>,
      <<CONNECT, LINE, ID("C"), ID("A")>> }

RECURSIVE ChunkSeqs(_)
ChunkSeqs(n) ==
    IF n = 0 THEN {<<>>}
    ELSE LET shorter == ChunkSeqs(n - 1)
         IN  shorter \cup {s \o c : s \in shorter, c \in Chunks}

\* The tokens of four place statements A(1,1), B(3,1), C(3,3), D(1,3), each
\* closed by a DOT, a rectangle A B C D, a line A, C and a triangle A B C.
ReferenceTokens ==
    <<PLACE>> \o Decl("A", <<"1">>, <<"1">>) \o <<DOT>>
        \o <<PLACE>> \o Decl("B", <<"3">>, <<"1">>) \o <<DOT>>
        \o <<PLACE>> \o Decl("C", <<"3">>, <<"3">>) \o <<DOT>>
        \o <<PLACE>> \o Decl("D", <<"1">>, <<"3">>) \o <<DOT>>
        \o <<BUILD, RECTANGLE, ID("A"), ID("B"), ID("C"), ID("D"), DOT>>
        \o <<CONNECT, LINE, ID("A"), COMMA, ID("C"), DOT>>
        \o <<BUILD, TRIANGLE, ID("A"), ID("B"), ID("C"), DOT>>

\* the token sequences a Parser is constructed with
Inputs == ChunkSeqs(MaxChunks) \cup {ReferenceTokens}

----------------------------------------------------------------------------
(* The fallback coordinate source. *)

\* random.uniform(-10, 10): the ends of the range
FallbackLow == -10
FallbackHigh == 10

\* the values of the range the model draws
RandomSamples == {FallbackLow, FallbackHigh}

\* a coordinate source that returns the same value twice
random_coordinates_tied == {<<v, v>> : v \in RandomSamples}

\* random_coordinates: the pairs it can return
random_coordinates == RandomSamples \X RandomSamples

----------------------------------------------------------------------------
(* Nodes. *)

DigitChars == <<"0", "1", "2", "3", "4", "5", "6", "7", "8", "9">>
Digits == Range(DigitChars)
DigitValue(c) == (CHOOSE i \in 1..10 : DigitChars[i] = c) - 1

RECURSIVE ParseDigits(_)
ParseDigits(s) ==
    IF s = <<>> THEN 0
    ELSE ParseDigits(SubSeq(s, 1, Len(s) - 1)) * 10 + DigitValue(s[Len(s)])

\* float(x) of PointNode.__init__, on an integer literal
Float(lexeme) ==
    IF Head(lexeme) = "-" THEN 0 - ParseDigits(Tail(lexeme))
    ELSE ParseDigits(lexeme)

\* PointNode(name, x, y), x and y already numbers
PointNode(name, x, y) == [node |-> "Point", name |-> name, x |-> x, y |-> y]
RectangleNode(pts) == [node |-> "Rectangle", points |-> pts]
TriangleNode(pts) == [node |-> "Triangle", points |-> pts]

\* a line that holds its end points the other way round
LineNode_swapped(point1, point2) == [node |-> "Line", point1 |-> point2, point2 |-> point1]

\* LineNode(point1, point2)
LineNode(point1, point2) == [node |-> "Line", point1 |-> point1, point2 |-> point2]

----------------------------------------------------------------------------
(* Exceptions. *)

NoErr == [type |-> "none", what |-> "none", expected |-> "", actual |-> "",
          pos |-> -1, names |-> <<>>]
\* SyntaxError(f"Expected {token_type}, got {actual} at position {pos}")
ExpectedErr(token_type, actual, p) ==
    [type |-> "SyntaxError", what |-> "expected", expected |-> token_type,
     actual |-> actual, pos |-> p, names |-> <<>>]
\* tokens[i] with i out of range
IndexErr == [type |-> "IndexError", what |-> "index", expected |-> "",
             actual |-> "", pos |-> -1, names |-> <<>>]
\* SyntaxError(f"Unexpected token: {token_type}")
UnexpectedErr(token_type) ==
    [type |-> "SyntaxError", what |-> "unexpected", expected |-> "",
     actual |-> token_type, pos |-> -1, names |-> <<>>]
\* ValueError(f"One or more points are not defined: {points}")
UndefinedErr(names) ==
    [type |-> "ValueError", what |-> "undefined", expected |-> "",
     actual |-> "", pos |-> -1, names |-> names]
\* ValueError(f"The points {points} are collinear and cannot form a triangle.")
CollinearErr(names) ==
    [type |-> "ValueError", what |-> "collinear", expected |-> "",
     actual |-> "", pos |-> -1, names |-> names]

NoResult == [returned |-> FALSE, nodes |-> <<>>]
Returned(ns) == [returned |-> TRUE, nodes |-> ns]

----------------------------------------------------------------------------
(* The parser's primitives. *)

\* the type of the token under the cursor, "" when the cursor is at the end
TypeAt(toks, p) == IF p < Len(toks) THEN toks[p + 1].type ELSE ""

\* consume with the cursor advanced also when the kinds differ
consume_advancing(toks, p, token_type) ==
    IF p < Len(toks) /\ toks[p + 1].type = token_type
    THEN [ok |-> TRUE, value |-> toks[p + 1].value, pos |-> p + 1, err |-> NoErr]
    ELSE IF p < Len(toks)
    THEN [ok |-> FALSE, value |-> <<>>, pos |-> p + 1,
          err |-> ExpectedErr(token_type, toks[p + 1].type, p)]
    ELSE [ok |-> FALSE, value |-> <<>>, pos |-> p, err |-> IndexErr]

\* consume(token_type) with the cursor at p: the value returned and the new
\* cursor, or the exception raised.  With the cursor at the end, the message of
\* the SyntaxError reads tokens[pos], which raises IndexError instead.
consume(toks, p, token_type) ==
    IF p < Len(toks) /\ toks[p + 1].type = token_type
    THEN [ok |-> TRUE, value |-> toks[p + 1].value, pos |-> p + 1, err |-> NoErr]
    ELSE IF p < Len(toks)
    THEN [ok |-> FALSE, value |-> <<>>, pos |-> p,
          err |-> ExpectedErr(token_type, toks[p + 1].type, p)]
    ELSE [ok |-> FALSE, value |-> <<>>, pos |-> p, err |-> IndexErr]

\* consume(t) for each t of token_types in turn, up to the first that raises:
\* the values returned, the cursor reached and the exception, if any.  A
\* consume that returns has moved the cursor by one.
RECURSIVE consumeAll(_, _, _)
consumeAll(toks, p, token_types) ==
    IF token_types = <<>>
    THEN [ok |-> TRUE, values |-> <<>>, pos |-> p, err |-> NoErr]
    ELSE LET c == consume(toks, p, Head(token_types))
         IN  IF ~c.ok
             THEN [ok |-> FALSE, values |-> <<>>, pos |-> c.pos, err |-> c.err]
             ELSE LET r == consumeAll(toks, p + 1, Tail(token_types))
                  IN  [r EXCEPT !.values = <<c.value>> \o @]

\* while the token under the cursor is a DOT: consume("DOT")
RECURSIVE skipDots(_, _)
skipDots(toks, p) ==
    IF TypeAt(toks, p) = "DOT" THEN skipDots(toks, consume(toks, p, "DOT").pos)
    ELSE p

\* the area formula with a sign slipped in its last term
check_collinearity_slip(p1, p2, p3) ==
    Abs(p1.x * (p2.y - p3.y) + p2.x * (p3.y - p1.y) + p3.x * (p1.y + p2.y)) = 0

\* check_collinearity(p1, p2, p3)
check_collinearity(p1, p2, p3) ==
    Abs(p1.x * (p2.y - p3.y) + p2.x * (p3.y - p1.y) + p3.x * (p1.y - p2.y)) = 0

\* any(name not in self.built_points for name in points)
anyUndefined(names, registry) ==
    \E i \in 1..Len(names) : names[i] \notin DOMAIN registry

\* the points resolved in the reverse order
resolve_reversed(names, registry) ==
    [i \in 1..Len(names) |-> registry[names[Len(names) + 1 - i]]]

\* [self.built_points[name] for name in points]
resolve(names, registry) == [i \in 1..Len(names) |-> registry[names[i]]]

\* the registry replaced by one that holds the new point alone
register_alone(registry, name, point) == [n \in {name} |-> point]

\* a name already registered keeps its first point
register_first_wins(registry, name, point) ==
    IF name \in DOMAIN registry THEN registry
    ELSE [n \in DOMAIN registry \cup {name} |-> IF n = name THEN point ELSE registry[n]]

\* self.built_points[name] = point
register(registry, name, point) ==
    [n \in DOMAIN registry \cup {name} |-> IF n = name THEN point ELSE registry[n]]

\* one node per place-stmt: nodes.append of the last point declared
extend_last(ns, ps) == IF ps = <<>> THEN ns ELSE Append(ns, ps[Len(ps)])

\* the new points are appended and take the place of the points of their names
\* in the nodes emitted before
extend_rebinding(ns, ps) ==
    LET latest(point) ==
            IF \E i \in 1..Len(ps) : ps[i].name = point.name
            THEN ps[CHOOSE i \in 1..Len(ps) :
                        /\ ps[i].name = point.name
                        /\ \A j \in (i + 1)..Len(ps) : ps[j].name # point.name]
            ELSE point
        rebound(n) ==
            CASE n.node = "Point" -> latest(n)
              [] n.node = "Line" ->
                     [n EXCEPT !.point1 = latest(@), !.point2 = latest(@)]
              [] OTHER ->
                     [n EXCEPT !.points = [k \in 1..Len(@) |-> latest(@[k])]]
    IN  [k \in 1..Len(ns) |-> rebound(ns[k])] \o ps

\* nodes.extend(self.parse_points())
extend(ns, ps) == ns \o ps

\* the error message of parse_line names point1 and point2
lineErrorNames(point1, point2) == <<point1, point2>>

\* the error message of parse_rectangle and parse_triangle names points
shapeErrorNames(names) == names

----------------------------------------------------------------------------
(* The parser. *)

\* a registry that outlives the parse before: it holds a point already
ParserInit_stale ==
    /\ tokens \in Inputs
    /\ pos = 0
    /\ built_points = [n \in {<<"A">>} |-> PointNode(n, 0, 0)]
    /\ nodes = <<>>
    /\ points = <<>>
    /\ pc = "top"
    /\ err = NoErr
    /\ result = NoResult

\* Parser(tokens)
ParserInit ==
    /\ tokens \in Inputs
    /\ pos = 0
    /\ built_points = <<>>
    /\ nodes = <<>>
    /\ points = <<>>
    /\ pc = "top"
    /\ err = NoErr
    /\ result = NoResult

\* an exception that hands back the nodes built so far
raise_returning(e, p) ==
    /\ err' = e
    /\ pos' = p
    /\ pc' = "failed"
    /\ result' = Returned(nodes)
    /\ UNCHANGED <<tokens, nodes, points>>
    /\ UNCHANGED lexer_vars

\* an exception leaves parse: nothing is returned
raise(e, p) ==
    /\ err' = e
    /\ pos' = p
    /\ pc' = "failed"
    /\ UNCHANGED <<tokens, nodes, points, result>>
    /\ UNCHANGED lexer_vars

\* the top-level loop of parse runs another iteration
AtStatement == pc = "top" /\ pos < Len(tokens)

\* parse_points up to its loop: consume("PLACE"); points = []
PlaceStart ==
    /\ AtStatement
    /\ TypeAt(tokens, pos) = "PLACE"
    /\ pos' = consume(tokens, pos, "PLACE").pos
    /\ points' = <<>>
    /\ pc' = "points"
    /\ UNCHANGED <<tokens, built_points, nodes, err, result>>
    /\ UNCHANGED lexer_vars

\* one iteration of the loop of parse_points, with the return that follows its
\* break and the nodes.extend of parse
PointDecl ==
    /\ pc = "points"
    /\ TypeAt(tokens, pos) = "POINT"
    /\ \E head \in {consumeAll(tokens, pos, <<"POINT", "ID">>)} :
       \E p1 \in {skipDots(tokens, head.pos)} :
       \E coord \in {consumeAll(tokens, p1,
                               <<"LPAREN", "NUMBER", "COMMA", "NUMBER", "RPAREN">>)} :
       LET name == head.values[2]
           explicit == TypeAt(tokens, p1) = "LPAREN"
           p2 == IF explicit THEN coord.pos ELSE p1
       IN  IF ~head.ok
           THEN raise(head.err, head.pos) /\ UNCHANGED built_points
           ELSE IF explicit /\ ~coord.ok
           THEN raise(coord.err, coord.pos) /\ UNCHANGED built_points
           ELSE \E xy \in IF explicit
                          THEN {<<Float(coord.values[2]), Float(coord.values[4])>>}
                          ELSE random_coordinates :
                /\ built_points' =
                       register(built_points, name, PointNode(name, xy[1], xy[2]))
                /\ points' = Append(points, PointNode(name, xy[1], xy[2]))
                /\ IF TypeAt(tokens, p2) = "DOT"
                   THEN /\ pos' = consume(tokens, p2, "DOT").pos
                        /\ nodes' = extend(nodes, points')
                        /\ pc' = "top"
                   ELSE /\ pos' = IF TypeAt(tokens, p2) = "COMMA"
                                  THEN consume(tokens, p2, "COMMA").pos
                                  ELSE p2
                        /\ UNCHANGED <<nodes, pc>>
                /\ UNCHANGED <<tokens, err, result>>
                /\ UNCHANGED lexer_vars

\* the loop of parse_points ends: return points; nodes.extend(...)
PointsReturn ==
    /\ pc = "points"
    /\ TypeAt(tokens, pos) # "POINT"
    /\ nodes' = extend(nodes, points)
    /\ pc' = "top"
    /\ UNCHANGED <<tokens, pos, built_points, points, err, result>>
    /\ UNCHANGED lexer_vars

\* parse evaluates tokens[pos + 1] with BUILD the last token
BuildLookahead ==
    /\ AtStatement
    /\ TypeAt(tokens, pos) = "BUILD"
    /\ pos + 1 >= Len(tokens)
    /\ raise(IndexErr, pos)
    /\ UNCHANGED built_points

\* nodes.append(self.parse_rectangle())
ParseRectangle ==
    /\ AtStatement
    /\ TypeAt(tokens, pos) = "BUILD"
    /\ TypeAt(tokens, pos + 1) = "RECTANGLE"
    /\ \E c \in {consumeAll(tokens, pos,
                           <<"BUILD", "RECTANGLE", "ID", "ID", "ID", "ID">>)} :
       LET names == SubSeq(c.values, 3, 6)
       IN  IF ~c.ok THEN raise(c.err, c.pos)
           ELSE IF anyUndefined(names, built_points)
           THEN raise(UndefinedErr(shapeErrorNames(names)), c.pos)
           ELSE /\ nodes' = Append(nodes, RectangleNode(resolve(names, built_points)))
                /\ pos' = c.pos
                /\ UNCHANGED <<tokens, points, pc, err, result>>
                /\ UNCHANGED lexer_vars
    /\ UNCHANGED built_points

\* nodes.append(self.parse_triangle())
ParseTriangle ==
    /\ AtStatement
    /\ TypeAt(tokens, pos) = "BUILD"
    /\ TypeAt(tokens, pos + 1) = "TRIANGLE"
    /\ \E c \in {consumeAll(tokens, pos, <<"BUILD", "TRIANGLE", "ID", "ID", "ID">>)} :
       LET names == SubSeq(c.values, 3, 5)
           ps == resolve(names, built_points)
       IN  IF ~c.ok THEN raise(c.err, c.pos)
           ELSE IF anyUndefined(names, built_points)
           THEN raise(UndefinedErr(shapeErrorNames(names)), c.pos)
           ELSE IF check_collinearity(ps[1], ps[2], ps[3])
           THEN raise(CollinearErr(names), c.pos)
           ELSE /\ nodes' = Append(nodes, TriangleNode(ps))
                /\ pos' = c.pos
                /\ UNCHANGED <<tokens, points, pc, err, result>>
                /\ UNCHANGED lexer_vars
    /\ UNCHANGED built_points

\* nodes.append(self.parse_line())
ParseLine ==
    /\ AtStatement
    /\ TypeAt(tokens, pos) = "CONNECT"
    /\ \E c \in {consumeAll(tokens, pos, <<"CONNECT", "LINE", "ID", "COMMA", "ID">>)} :
       LET point1 == c.values[3]
           point2 == c.values[5]
       IN  IF ~c.ok THEN raise(c.err, c.pos)
           ELSE IF point1 \notin DOMAIN built_points
                   \/ point2 \notin DOMAIN built_points
           THEN raise(UndefinedErr(lineErrorNames(point1, point2)), c.pos)
           ELSE /\ nodes' = Append(nodes, LineNode(built_points[point1],
                                                   built_points[point2]))
                /\ pos' = c.pos
                /\ UNCHANGED <<tokens, points, pc, err, result>>
                /\ UNCHANGED lexer_vars
    /\ UNCHANGED built_points

\* continue without the consume: the cursor stays on the DOT
SkipDot_staying ==
    /\ AtStatement
    /\ TypeAt(tokens, pos) = "DOT"
    /\ UNCHANGED vars

\* self.consume("DOT"); continue
SkipDot ==
    /\ AtStatement
    /\ TypeAt(tokens, pos) = "DOT"
    /\ pos' = consume(tokens, pos, "DOT").pos
    /\ UNCHANGED <<tokens, built_points, nodes, points, pc, err, result>>
    /\ UNCHANGED lexer_vars

\* raise SyntaxError(f"Unexpected token: {token_type}")
Unexpected ==
    /\ AtStatement
    /\ TypeAt(tokens, pos) \notin {"PLACE", "CONNECT", "DOT"}
    /\ TypeAt(tokens, pos) = "BUILD" =>
           /\ pos + 1 < Len(tokens)
           /\ TypeAt(tokens, pos + 1) \notin {"RECTANGLE", "TRIANGLE"}
    /\ raise(UnexpectedErr(TypeAt(tokens, pos)), pos)
    /\ UNCHANGED built_points

\* the top-level loop ends: return nodes
Return ==
    /\ pc = "top"
    /\ pos >= Len(tokens)
    /\ result' = Returned(nodes)
    /\ pc' = "done"
    /\ UNCHANGED <<tokens, pos, built_points, nodes, points, err>>
    /\ UNCHANGED lexer_vars

Next ==
    \/ PlaceStart
    \/ PointDecl
    \/ PointsReturn
    \/ BuildLookahead
    \/ ParseRectangle
    \/ ParseTriangle
    \/ ParseLine
    \/ SkipDot
    \/ Unexpected
    \/ Return

\* the Lexer takes no part in a parse of given tokens
LexerIdle ==
    /\ text = <<>>
    /\ lexer_tokens = <<>>
    /\ calls = 0
    /\ first_out = <<>>
    /\ last_out = <<>>

Init == ParserInit /\ LexerIdle

Spec == Init /\ [][Next]_vars

----------------------------------------------------------------------------
(* The lexer: the patterns of tokenize, and re.finditer on each. *)

AsciiUpper == {"A", "B", "C", "D", "E", "F", "G", "H", "I", "J", "K", "L", "M",
               "N", "O", "P", "Q", "R", "S", "T", "U", "V", "W", "X", "Y", "Z"}

\* the characters of the model's texts that are not word characters (\W)
NonWord == {"(", ")", ",", ".", "-", " "}
IsWord(c) == c \notin NonWord

Keyword(token_type, stem, suffixes) ==
    [type |-> token_type, class |-> "keyword", stem |-> stem,
     suffixes |-> suffixes, chars |-> {}]
OneChar(token_type, chars) ==
    [type |-> token_type, class |-> "char", stem |-> <<>>, suffixes |-> <<>>,
     chars |-> chars]
Number(token_type) ==
    [type |-> token_type, class |-> "number", stem |-> <<>>, suffixes |-> <<>>,
     chars |-> {}]

\* the list patterns of tokenize, in its order
patterns ==
    << Keyword("PLACE", <<"P_", "o", "s", "t", "a", "v">>,
               << <<"y", "t", "y">>, <<"l", "e", "n", "o">>, <<"t", "e">> >>),
       Keyword("POINT", <<"t", "o", "ch", "k">>,
               << <<"u">>, <<"a">>, <<"o", "yu">>, <<"y">> >>),
       Keyword("BUILD", <<"P_", "o", "b", "u", "d">>,
               << <<"u", "v", "a", "t", "y">>, <<"u", "j", "t", "e">>,
                  <<"o", "v", "a">> >>),
       Keyword("RECTANGLE", <<"p", "r", "ya", "m", "o", "k", "u", "t", "n">>,
               << <<"y", "k">>, <<"y", "k", "a">>, <<"y", "k", "u">>,
                  <<"y", "k", "o", "m">>, <<"y">> >>),
       Keyword("TRIANGLE", <<"t", "r", "y", "k", "u", "t", "n">>,
               << <<"y", "k">>, <<"y", "k", "a">>, <<"y", "k", "u">>,
                  <<"y", "k", "o", "m">>, <<"y">> >>),
       Keyword("CONNECT", <<"P_", "r", "o", "v">>,
               << <<"e", "s", "t", "y">>, <<"e", "d", "e", "n", "o">> >>),
       Keyword("LINE", <<"v", "i", "d", "r", "i", "z">>,
               << <<"o", "k">>, <<"k", "a">>, <<"k", "u">>, <<"k", "o", "m">>,
                  <<"k", "y">> >>),
       OneChar("ID", AsciiUpper),
       OneChar("LPAREN", {"("}),
       OneChar("RPAREN", {")"}),
       OneChar("COMMA", {","}),
       Number("NUMBER"),
       OneChar("DOT", {"."}) >>

\* word occurs in txt at (1-based) index i
StartsWith(txt, i, word) ==
    /\ i + Len(word) - 1 <= Len(txt)
    /\ \A k \in 1..Len(word) : txt[i + k - 1] = word[k]

\* \b at the boundary before index i of txt
WordBoundary(txt, i) ==
    LET before == i > 1 /\ IsWord(txt[i - 1])
        after == i <= Len(txt) /\ IsWord(txt[i])
    IN  before # after

\* \bstem(s1|s2|...)\b at index i: the length matched, 0 if none.  The
\* alternatives are tried in order, the next one when the final \b fails.
RECURSIVE KeywordMatch(_, _, _, _)
KeywordMatch(txt, i, stem, suffixes) ==
    IF suffixes = <<>> THEN 0
    ELSE LET word == stem \o Head(suffixes)
         IN  IF /\ WordBoundary(txt, i)
                /\ StartsWith(txt, i, word)
                /\ WordBoundary(txt, i + Len(word))
             THEN Len(word)
             ELSE KeywordMatch(txt, i, stem, Tail(suffixes))

\* \d+ at index i, greedy: the number of digits
RECURSIVE DigitRun(_, _)
DigitRun(txt, i) ==
    IF i <= Len(txt) /\ txt[i] \in Digits THEN 1 + DigitRun(txt, i + 1) ELSE 0

\* -?\d+(\.\d+)? at index i: the length matched, 0 if none
NumberMatch(txt, i) ==
    LET sign == IF txt[i] = "-" THEN 1 ELSE 0
        whole == DigitRun(txt, i + sign)
        j == i + sign + whole
        fraction == IF j <= Len(txt) /\ txt[j] = "." THEN DigitRun(txt, j + 1)
                    ELSE 0
    IN  IF whole = 0 THEN 0
        ELSE IF fraction = 0 THEN sign + whole
        ELSE sign + whole + 1 + fraction

\* the length pattern matches at index i of txt, 0 if it does not match there
MatchAt(pattern, txt, i) ==
    IF pattern.class = "keyword"
    THEN KeywordMatch(txt, i, pattern.stem, pattern.suffixes)
    ELSE IF pattern.class = "char"
    THEN (IF txt[i] \in pattern.chars THEN 1 ELSE 0)
    ELSE NumberMatch(txt, i)

\* re.finditer(pattern, text) from index i on: the non-overlapping matches,
\* left to right, each as the triple tokenize appends
RECURSIVE finditer(_, _, _)
finditer(pattern, txt, i) ==
    IF i > Len(txt) THEN <<>>
    ELSE LET n == MatchAt(pattern, txt, i)
         IN  IF n = 0 THEN finditer(pattern, txt, i + 1)
             ELSE << [type |-> pattern.type,
                      value |-> SubSeq(txt, i, i + n - 1),
                      start |-> i - 1] >>
                  \o finditer(pattern, txt, i + n)

\* the two loops of tokenize: what they append to self.tokens
allMatches(txt) ==
    Concat([k \in 1..Len(patterns) |-> finditer(patterns[k], txt, 1)])

\* list.sort(key=lambda x: x[2]) is stable: t goes behind every element whose
\* start is not greater
RECURSIVE insertByStart(_, _)
insertByStart(sorted, t) ==
    IF sorted = <<>> THEN <<t>>
    ELSE IF sorted[Len(sorted)].start <= t.start THEN Append(sorted, t)
    ELSE Append(insertByStart(SubSeq(sorted, 1, Len(sorted) - 1), t),
                sorted[Len(sorted)])

RECURSIVE sortByStart(_)
sortByStart(ts) ==
    IF ts = <<>> THEN <<>>
    ELSE insertByStart(sortByStart(SubSeq(ts, 1, Len(ts) - 1)), ts[Len(ts)])

\* [(token_type, value) for token_type, value, _ in self.tokens]
withoutStart(ts) == [k \in 1..Len(ts) |-> Tok(ts[k].type, ts[k].value)]

\* what the loops of tokenize start from: self.tokens as the calls before left it
tokenizeStart(previous) == previous

\* The lexical pieces the input texts are made of.
Pieces ==
    { <<"t", "o", "ch", "k", "u">>,
      <<"p", "r", "ya", "m", "o", "k", "u", "t", "n", "y", "k", "a">>,
      <<"t">>, <<"A">>, <<"1">>, <<"5">>, <<".">>, <<"-">>, <<" ">>,
      <<"(">>, <<",">> }

RECURSIVE PieceSeqs(_)
PieceSeqs(n) ==
    IF n = 0 THEN {<<>>}
    ELSE LET shorter == PieceSeqs(n - 1)
         IN  shorter \cup {s \o c : s \in shorter, c \in Pieces}

\* the texts a Lexer is constructed with
Texts == PieceSeqs(MaxPieces)

\* Lexer.__init__
LexerInit ==
    /\ text \in Texts
    /\ lexer_tokens = <<>>
    /\ calls = 0
    /\ first_out = <<>>
    /\ last_out = <<>>

\* no Parser is constructed
ParserIdle ==
    /\ tokens = <<>>
    /\ pos = 0
    /\ built_points = <<>>
    /\ nodes = <<>>
    /\ points = <<>>
    /\ pc = "idle"
    /\ err = NoErr
    /\ result = NoResult

\* a call of tokenize on the Lexer object
Tokenize ==
    /\ calls < MaxCalls
    /\ lexer_tokens' = sortByStart(tokenizeStart(lexer_tokens) \o allMatches(text))
    /\ last_out' = withoutStart(lexer_tokens')
    /\ first_out' = IF calls = 0 THEN last_out' ELSE first_out
    /\ calls' = calls + 1
    /\ UNCHANGED text
    /\ UNCHANGED parser_vars

LexInit == LexerInit /\ ParserIdle

LexNext == Tokenize

LexSpec == LexInit /\ [][LexNext]_vars

----------------------------------------------------------------------------
(* What the claims are stated with: the statements and declarations of a   *)
(* token sequence, read off the tokens alone.                              *)

\* the (0-based) index of the token that starts the statement the cursor p is
\* in or just behind: the last PLACE, BUILD or CONNECT before p
StatementStart(toks, p) ==
    LET starts == {i \in 0..(p - 1) : toks[i + 1].type \in {"PLACE", "BUILD", "CONNECT"}}
    IN  CHOOSE i \in starts : \A j \in starts : j <= i

\* the identifiers of the tokens at indices from..(to - 1), in order
RECURSIVE IdsBetween(_, _, _)
IdsBetween(toks, from, to) ==
    IF from >= to THEN <<>>
    ELSE (IF toks[from + 1].type = "ID" THEN <<toks[from + 1].value>> ELSE <<>>)
         \o IdsBetween(toks, from + 1, to)

\* the names declared by a POINT ID pair that lies wholly before index p
DeclaredBefore(toks, p) ==
    {toks[j + 2].value : j \in {i \in 0..(p - 2) : /\ toks[i + 1].type = "POINT"
                                                   /\ toks[i + 2].type = "ID"}}

\* the names declared by a POINT ID pair at or behind index p
DeclaredFrom(toks, p) ==
    {toks[j + 2].value : j \in {i \in p..(Len(toks) - 2) : /\ toks[i + 1].type = "POINT"
                                                          /\ toks[i + 2].type = "ID"}}

\* how many tokens of toks have one of the types
CountTypes(toks, types) == Cardinality({i \in 1..Len(toks) : toks[i].type \in types})

\* the indices (1-based) of the tokens of toks with one of the types, ascending
IndicesOf(toks, types) ==
    LET RECURSIVE from(_)
        from(i) == IF i > Len(toks) THEN <<>>
                   ELSE (IF toks[i].type \in types THEN <<i>> ELSE <<>>) \o from(i + 1)
    IN  from(1)

\* the kind of node a POINT, RECTANGLE, TRIANGLE or LINE token stands for
NodeKindOf(token_type) ==
    CASE token_type = "POINT" -> "Point"
      [] token_type = "RECTANGLE" -> "Rectangle"
      [] token_type = "TRIANGLE" -> "Triangle"
      [] token_type = "LINE" -> "Line"

\* the names of the point references of a shape node, in order
NamesOf(n) ==
    IF n.node = "Line" THEN <<n.point1.name, n.point2.name>>
    ELSE [i \in 1..Len(n.points) |-> n.points[i].name]

\* the signed-area expression of three points
SignedArea(p1, p2, p3) ==
    p1.x * (p2.y - p3.y) + p2.x * (p3.y - p1.y) + p3.x * (p1.y - p2.y)

\* a shape or line statement starts at the cursor and all its tokens are there
ShapeTypes(toks, p) ==
    IF TypeAt(toks, p) = "CONNECT" THEN <<"CONNECT", "LINE", "ID", "COMMA", "ID">>
    ELSE IF TypeAt(toks, p) = "BUILD" /\ TypeAt(toks, p + 1) = "RECTANGLE"
    THEN <<"BUILD", "RECTANGLE", "ID", "ID", "ID", "ID">>
    ELSE IF TypeAt(toks, p) = "BUILD" /\ TypeAt(toks, p + 1) = "TRIANGLE"
    THEN <<"BUILD", "TRIANGLE", "ID", "ID", "ID">>
    ELSE <<>>

WellFormedShapeAt(toks, p) ==
    LET types == ShapeTypes(toks, p)
    IN  /\ types # <<>>
        /\ p + Len(types) <= Len(toks)
        /\ \A k \in 1..Len(types) : toks[p + k].type = types[k]

----------------------------------------------------------------------------
(* The claims. *)

\* C1 (as claimed): an undefined-reference error lists exactly the missing
\* identifiers of its statement: every identifier of the statement that is not
\* in the registry, and none that is.
C1_ErrorListsExactlyMissing ==
    err.what = "undefined" =>
        Range(err.names) =
            {n \in Range(IdsBetween(tokens, StatementStart(tokens, pos), pos)) :
                 n \notin DOMAIN built_points}

\* C2 (as claimed): a parse that fails because the cursor ran out of tokens, in
\* consume at the end of the tokens or in the dispatch looking behind a last
\* BUILD, fails with a SyntaxError.
C2_OutOfTokensIsSyntaxError ==
    (/\ pc = "failed"
     /\ err.type # "ValueError"
     /\ \/ pos >= Len(tokens)
        \/ TypeAt(tokens, pos) = "BUILD" /\ pos + 1 >= Len(tokens))
    => err.type = "SyntaxError"

\* C3: consume(expectedKind) with the cursor on a token returns the lexeme and
\* advances the cursor by one if the kinds are equal, and otherwise raises a
\* syntax error with the expected kind, the actual kind and the cursor's index,
\* the cursor unmoved; the step of a parse that ends with this error leaves the
\* cursor at the index the error carries, on a token of the actual kind it
\* carries, and leaves the registry as it was.
C3_ConsumeMatchOrSyntaxError ==
    [][/\ \A k \in TokenTypes :
            pos < Len(tokens) =>
                LET c == consume(tokens, pos, k)
                IN  IF tokens[pos + 1].type = k
                    THEN /\ c.ok
                         /\ c.value = tokens[pos + 1].value
                         /\ c.pos = pos + 1
                    ELSE /\ ~c.ok
                         /\ c.pos = pos
                         /\ c.err.type = "SyntaxError"
                         /\ c.err.expected = k
                         /\ c.err.actual = tokens[pos + 1].type
                         /\ c.err.pos = pos
       /\ err'.what = "expected" =>
              /\ err.what = "none"
              /\ pos' = err'.pos
              /\ pos' < Len(tokens)
              /\ err'.actual = tokens[pos' + 1].type
              /\ err'.expected # err'.actual
              /\ built_points' = built_points]_vars

\* C3's case: a parse ended by the syntax error of consume, the cursor past
\* the first token and the registry not empty
C3_Witness ==
    /\ err.what = "expected"
    /\ pos > 0
    /\ DOMAIN built_points # {}

\* C4: a well-formed shape or line statement fails with an undefined-reference
\* error exactly when it names a point that no POINT ID pair earlier in the
\* tokens declares, whatever is declared behind it.
C4_DefinitionBeforeUse ==
    [][(AtStatement /\ WellFormedShapeAt(tokens, pos)) =>
           LET names == IdsBetween(tokens, pos, pos + Len(ShapeTypes(tokens, pos)))
           IN  (err'.what = "undefined") <=>
                   (\E i \in 1..Len(names) : names[i] \notin DeclaredBefore(tokens, pos))
      ]_vars

\* C4's case: an undefined-reference error for a name that a place-stmt behind
\* the statement declares, in a parse that declared another point before
C4_Witness ==
    /\ err.what = "undefined"
    /\ DOMAIN built_points # {}
    /\ \E i \in 1..Len(err.names) :
           /\ err.names[i] \notin DOMAIN built_points
           /\ err.names[i] \in DeclaredFrom(tokens, pos)

\* C5 (as claimed): no token that tokenize emits lies inside the match of a
\* category earlier in the pattern list (or starts where it starts): the '.' of
\* a decimal NUMBER is no DOT token, no character of a keyword is an ID token.
C5_NoTokenInsideEarlierMatch ==
    calls = 1 =>
        \A i, j \in 1..Len(lexer_tokens) :
            LET outer == lexer_tokens[i]
                inner == lexer_tokens[j]
                priority(t) == CHOOSE k \in 1..Len(patterns) : patterns[k].type = t.type
            IN  ~(/\ i # j
                  /\ priority(outer) < priority(inner)
                  /\ outer.start <= inner.start
                  /\ inner.start + Len(inner.value) <= outer.start + Len(outer.value))

\* C6 (as claimed): a second call of tokenize on the same Lexer object returns
\* what the first call returned.
C6_SecondCallReturnsTheSame ==
    calls >= 2 => last_out = first_out

\* C7: a parse that failed has returned no scene, and a scene is returned only
\* with the cursor at the end of the tokens and no failure.
C7_AllOrNothing ==
    /\ (pc = "failed" \/ err # NoErr) => result = NoResult
    /\ result.returned => (err = NoErr /\ pos = Len(tokens) /\ pc = "done")

\* C7's case: a parse failed after earlier statements had emitted nodes
C7_Witness ==
    /\ pc = "failed"
    /\ Len(nodes) >= 2
    /\ result = NoResult

\* C8: a tri-stmt whose three names are registered fails with the
\* degenerate-geometry error exactly when the signed area of the three resolved
\* points is zero and otherwise appends one Triangle node of these points; no
\* returned scene holds a Triangle node of zero signed area.
C8_TriangleIffNotCollinear ==
    [][/\ (/\ AtStatement
           /\ WellFormedShapeAt(tokens, pos)
           /\ TypeAt(tokens, pos + 1) = "TRIANGLE"
           /\ \A k \in 2..4 : tokens[pos + k + 1].value \in DOMAIN built_points)
          => LET p1 == built_points[tokens[pos + 3].value]
                 p2 == built_points[tokens[pos + 4].value]
                 p3 == built_points[tokens[pos + 5].value]
             IN  IF SignedArea(p1, p2, p3) = 0
                 THEN /\ err'.what = "collinear"
                      /\ pc' = "failed"
                      /\ nodes' = nodes
                 ELSE /\ err' = NoErr
                      /\ nodes' = Append(nodes, TriangleNode(<<p1, p2, p3>>))
       /\ \A k \in 1..Len(result'.nodes) :
              result'.nodes[k].node = "Triangle" =>
                  SignedArea(result'.nodes[k].points[1], result'.nodes[k].points[2],
                             result'.nodes[k].points[3]) # 0
      ]_vars

\* C8's case: a tri-stmt over three different registered points that are
\* collinear has failed
C8_Witness ==
    /\ err.what = "collinear"
    /\ Cardinality(Range(err.names)) = 3

\* C9 (as claimed): a scene returned for tokens whose place-stmts each declare
\* at least one point has one node per statement: as many nodes as the tokens
\* hold statements (each starts with PLACE, BUILD or CONNECT).
C9_OneNodePerStatement ==
    (/\ result.returned
     /\ \A i \in 1..Len(tokens) :
            tokens[i].type = "PLACE" => TypeAt(tokens, i) = "POINT")
    => Len(result.nodes) = CountTypes(tokens, {"PLACE", "BUILD", "CONNECT"})

\* C9 (amended): a returned scene has one Point node per point declaration
\* (POINT ID) of every place-stmt and one node per rect-, tri- and line-stmt,
\* in the order of the declarations and statements in the tokens; each Point
\* node has the name its declaration gives.
C9_OneNodePerDeclarationOrShape ==
    result.returned =>
        LET at == IndicesOf(tokens, {"POINT", "RECTANGLE", "TRIANGLE", "LINE"})
        IN  /\ Len(result.nodes) = Len(at)
            /\ \A k \in 1..Len(at) :
                   /\ result.nodes[k].node = NodeKindOf(tokens[at[k]].type)
                   /\ tokens[at[k]].type = "POINT" =>
                          result.nodes[k].name = tokens[at[k] + 1].value

\* C9's case: a scene returned for tokens with a place-stmt of several
\* declarations, followed by a shape statement
C9_Witness ==
    /\ result.returned
    /\ Len(result.nodes) > CountTypes(tokens, {"PLACE", "BUILD", "CONNECT"})
    /\ \E k \in 2..Len(result.nodes) :
           result.nodes[k].node # "Point" /\ result.nodes[k - 1].node = "Point"

\* C10: in a returned scene the names of the point references of the k-th
\* Rectangle, Triangle or Line node, in order, are the identifiers behind the
\* k-th RECTANGLE, TRIANGLE or LINE token: four, three, or the two around the
\* COMMA.
C10_ShapeNamesAreTheConsumedIds ==
    result.returned =>
        LET at == IndicesOf(tokens, {"RECTANGLE", "TRIANGLE", "LINE"})
            shapes == SelectSeq(result.nodes, LAMBDA n : n.node # "Point")
            ids(i) == CASE tokens[i].type = "RECTANGLE" ->
                               <<tokens[i + 1].value, tokens[i + 2].value,
                                 tokens[i + 3].value, tokens[i + 4].value>>
                        [] tokens[i].type = "TRIANGLE" ->
                               <<tokens[i + 1].value, tokens[i + 2].value,
                                 tokens[i + 3].value>>
                        [] tokens[i].type = "LINE" ->
                               <<tokens[i + 1].value, tokens[i + 3].value>>
        IN  /\ Len(shapes) = Len(at)
            /\ \A k \in 1..Len(at) :
                   /\ shapes[k].node = NodeKindOf(tokens[at[k]].type)
                   /\ NamesOf(shapes[k]) = ids(at[k])

\* C10's case: a returned scene with a Rectangle node that names a point twice
\* and a Line or Triangle node
C10_Witness ==
    /\ result.returned
    /\ \E k \in 1..Len(result.nodes) :
           /\ result.nodes[k].node = "Rectangle"
           /\ Cardinality(Range(NamesOf(result.nodes[k]))) = 3
    /\ \E k \in 1..Len(result.nodes) : result.nodes[k].node \in {"Line", "Triangle"}

----------------------------------------------------------------------------
(* Point declarations, read off the tokens alone. *)

\* the first index from p on whose token is no DOT (the end, if there is none)
RECURSIVE FirstNonDot(_, _)
FirstNonDot(toks, p) ==
    IF p < Len(toks) /\ toks[p + 1].type = "DOT" THEN FirstNonDot(toks, p + 1) ELSE p

\* a declaration POINT ID DOT* with its coordinates starts at index p
HasCoordinatesAt(toks, p) ==
    LET q == FirstNonDot(toks, p + 2)
    IN  /\ q + 5 <= Len(toks)
        /\ <<toks[q + 1].type, toks[q + 2].type, toks[q + 3].type,
             toks[q + 4].type, toks[q + 5].type>>
               = <<"LPAREN", "NUMBER", "COMMA", "NUMBER", "RPAREN">>

\* a declaration POINT ID DOT* without coord-opt starts at index p
OmitsCoordinatesAt(toks, p) == TypeAt(toks, FirstNonDot(toks, p + 2)) # "LPAREN"

\* a declaration that the grammar accepts starts at index p
DeclarationAt(toks, p) ==
    /\ TypeAt(toks, p) = "POINT"
    /\ TypeAt(toks, p + 1) = "ID"
    /\ HasCoordinatesAt(toks, p) \/ OmitsCoordinatesAt(toks, p)

\* the value of an integer literal
LiteralValue(lexeme) ==
    LET digits == IF lexeme[1] = "-" THEN Tail(lexeme) ELSE lexeme
        RECURSIVE value(_)
        value(k) == IF k = 0 THEN 0
                    ELSE 10 * value(k - 1)
                         + (CHOOSE d \in 0..9 : DigitChars[d + 1] = digits[k])
    IN  IF lexeme[1] = "-" THEN 0 - value(Len(digits)) ELSE value(Len(digits))

\* the point references of a shape or line node, in order
RefsOf(n) == IF n.node = "Line" THEN <<n.point1, n.point2>> ELSE n.points

\* C11: a declaration of a name that is already registered does not fail; after
\* it the registry maps the name to the point of this declaration (its explicit
\* coordinates, or fallback coordinates) and every other name as before; no
\* step removes a name; a shape or line node, when appended, holds the points
\* the registry maps its names to at that moment.
C11_RedeclarationOverwrites ==
    [][/\ DOMAIN built_points \subseteq DOMAIN built_points'
       /\ (/\ pc = "points"
           /\ DeclarationAt(tokens, pos)
           /\ tokens[pos + 2].value \in DOMAIN built_points)
          => LET name == tokens[pos + 2].value
                 q == FirstNonDot(tokens, pos + 2)
             IN  /\ err' = NoErr
                 /\ DOMAIN built_points' = DOMAIN built_points
                 /\ \A n \in DOMAIN built_points \ {name} :
                        built_points'[n] = built_points[n]
                 /\ built_points'[name].name = name
                 /\ IF HasCoordinatesAt(tokens, pos)
                    THEN /\ built_points'[name].x = LiteralValue(tokens[q + 2].value)
                         /\ built_points'[name].y = LiteralValue(tokens[q + 4].value)
                    ELSE /\ built_points'[name].x \in FallbackLow..FallbackHigh
                         /\ built_points'[name].y \in FallbackLow..FallbackHigh
                 /\ points'[Len(points')] = built_points'[name]
       /\ (Len(nodes') = Len(nodes) + 1 /\ nodes'[Len(nodes')].node # "Point")
          => LET refs == RefsOf(nodes'[Len(nodes')])
             IN  \A k \in 1..Len(refs) : refs[k] = built_points[refs[k].name]
      ]_vars

\* C11's case: a name was declared again with other coordinates, and a shape
\* parsed behind the second declaration holds the second point
C11_Witness ==
    \E k \in 1..Len(nodes) :
        /\ nodes[k].node # "Point"
        /\ \E r \in Range(RefsOf(nodes[k])) :
               /\ built_points[r.name] = r
               /\ \E j \in 1..(k - 1) :
                      /\ nodes[j].node = "Point"
                      /\ nodes[j].name = r.name
                      /\ nodes[j] # r

----------------------------------------------------------------------------
(* The reference scenario. *)

ReferenceA == [node |-> "Point", name |-> <<"A">>, x |-> 1, y |-> 1]
ReferenceB == [node |-> "Point", name |-> <<"B">>, x |-> 3, y |-> 1]
ReferenceC == [node |-> "Point", name |-> <<"C">>, x |-> 3, y |-> 3]
ReferenceD == [node |-> "Point", name |-> <<"D">>, x |-> 1, y |-> 3]

\* the scene the reference scenario is to yield
ReferenceScene ==
    << ReferenceA, ReferenceB, ReferenceC, ReferenceD,
       [node |-> "Rectangle",
        points |-> <<ReferenceA, ReferenceB, ReferenceC, ReferenceD>>],
       [node |-> "Line", point1 |-> ReferenceA, point2 |-> ReferenceC],
       [node |-> "Triangle", points |-> <<ReferenceA, ReferenceB, ReferenceC>>] >>

\* C12: the parse of the reference token sequence never fails, emits at every
\* moment a prefix of the seven reference nodes, goes on until it has ended,
\* and then has returned exactly the seven nodes in their order.
C12_ReferenceScenario ==
    tokens = ReferenceTokens
    => /\ pc # "failed"
       /\ err = NoErr
       /\ Len(nodes) <= Len(ReferenceScene)
       /\ nodes = SubSeq(ReferenceScene, 1, Len(nodes))
       /\ pc = "done" => result = [returned |-> TRUE, nodes |-> ReferenceScene]
       /\ pc # "done" => ENABLED <<Next>>_vars

\* C12's case: the parse of the reference token sequence has returned
C12_Witness ==
    /\ tokens = ReferenceTokens
    /\ pc = "done"
    /\ result.returned
    /\ Len(result.nodes) = 7

----------------------------------------------------------------------------
(* Fallback coordinates. *)

\* the declaration loop is about to read a declaration without coord-opt
AtOmittedDeclaration ==
    /\ pc = "points"
    /\ TypeAt(tokens, pos) = "POINT"
    /\ TypeAt(tokens, pos + 1) = "ID"
    /\ OmitsCoordinatesAt(tokens, pos)

\* C13: a declaration POINT ID without coord-opt does not fail; it registers
\* and collects for emission a Point of that name whose x and y each lie in
\* the fallback range, and every pair of drawn values, equal or not, is a
\* possible outcome of the declaration (the two draws do not depend on each
\* other).
C13_OmittedCoordinatesFallBack ==
    [][AtOmittedDeclaration
       => LET name == tokens[pos + 2].value
              point == points'[Len(points')]
          IN  /\ err' = NoErr
              /\ pc' # "failed"
              /\ points' = Append(points, point)
              /\ point.node = "Point"
              /\ point.name = name
              /\ point.x \in FallbackLow..FallbackHigh
              /\ point.y \in FallbackLow..FallbackHigh
              /\ name \in DOMAIN built_points'
              /\ built_points'[name] = point
              /\ pc' = "top" => nodes' = nodes \o points'
              /\ \A x \in RandomSamples : \A y \in RandomSamples :
                     ENABLED (/\ PointDecl
                              /\ points'[Len(points')].x = x
                              /\ points'[Len(points')].y = y)
      ]_vars

\* C13's case: a declaration without coord-opt has been parsed and emitted
\* with two different fallback values
C13_Witness ==
    \E k \in 1..Len(nodes) :
        /\ nodes[k].node = "Point"
        /\ nodes[k].x = FallbackLow
        /\ nodes[k].y = FallbackHigh
        /\ \E i \in 0..(pos - 1) :
               /\ tokens[i + 1].type = "POINT"
               /\ TypeAt(tokens, i + 1) = "ID"
               /\ tokens[i + 2].value = nodes[k].name
               /\ OmitsCoordinatesAt(tokens, i)

----------------------------------------------------------------------------
(* Statements. *)

\* C14 (as claimed): a PLACE that is not followed at once by POINT is a syntax
\* error, so a parse that has returned a scene read no such PLACE.
C14_PlaceRequiresDeclaration ==
    result.returned
    => \A i \in 1..Len(tokens) :
           tokens[i].type = "PLACE" => TypeAt(tokens, i) = "POINT"

\* a step of the top-level loop has appended one node of the given kind
Appended(kind) ==
    /\ pc' = "top"
    /\ err' = NoErr
    /\ Len(nodes') = Len(nodes) + 1
    /\ SubSeq(nodes', 1, Len(nodes)) = nodes
    /\ nodes'[Len(nodes')].node = kind

\* a step has failed inside the statement it started, not in the dispatch
FailedInStatement == pc' = "failed" /\ err'.what # "unexpected" /\ nodes' = nodes

\* C15 (as claimed): the top-level loop dispatches on the token under the
\* cursor: PLACE starts a place-stmt; CONNECT a line-stmt; BUILD with RECTANGLE
\* behind it a rect-stmt; BUILD with TRIANGLE behind it a tri-stmt; a DOT is
\* skipped (cursor plus one, no node, registry as before); every other token,
\* and BUILD with anything else behind it, fails with a syntax error.
C15_TopLevelDispatch ==
    [][AtStatement
       => LET kind == TypeAt(tokens, pos)
              next == TypeAt(tokens, pos + 1)
          IN  CASE kind = "PLACE" ->
                       /\ pc' = "points"
                       /\ pos' = pos + 1
                       /\ points' = <<>>
                       /\ nodes' = nodes /\ built_points' = built_points
                       /\ err' = NoErr
                [] kind = "CONNECT" -> Appended("Line") \/ FailedInStatement
                [] kind = "BUILD" /\ next = "RECTANGLE" ->
                       Appended("Rectangle") \/ FailedInStatement
                [] kind = "BUILD" /\ next = "TRIANGLE" ->
                       Appended("Triangle") \/ FailedInStatement
                [] kind = "DOT" ->
                       /\ pos' = pos + 1
                       /\ pc' = "top"
                       /\ nodes' = nodes /\ built_points' = built_points
                       /\ err' = NoErr
                [] OTHER ->
                       /\ pc' = "failed"
                       /\ err'.type = "SyntaxError"
                       /\ nodes' = nodes /\ built_points' = built_points
      ]_vars

\* the top-level loop is about to start a rect-stmt
AtRectangle ==
    /\ AtStatement
    /\ TypeAt(tokens, pos) = "BUILD"
    /\ TypeAt(tokens, pos + 1) = "RECTANGLE"

\* the four tokens behind BUILD RECTANGLE are IDs, all of them registered
FourRegisteredIds ==
    /\ pos + 6 <= Len(tokens)
    /\ \A k \in 3..6 :
           /\ tokens[pos + k].type = "ID"
           /\ tokens[pos + k].value \in DOMAIN built_points

\* C16 (as claimed): a rect-stmt over four registered IDs, collinear or
\* repeated as they may be, appends one Rectangle node of the registered points
\* and moves the cursor behind the fourth ID; a rect-stmt that fails, fails
\* with a syntax error or with an undefined-reference error.
C16_RectangleUnchecked ==
    [][AtRectangle
       => /\ FourRegisteredIds
             => /\ Appended("Rectangle")
                /\ nodes'[Len(nodes')].points
                       = [k \in 1..4 |-> built_points[tokens[pos + k + 2].value]]
                /\ pos' = pos + 6
          /\ pc' = "failed"
             => err'.type = "SyntaxError" \/ err'.what = "undefined"
      ]_vars

----------------------------------------------------------------------------
(* Termination. *)

\* the parse has ended, with a scene or with a failure
Ended == pc \in {"done", "failed"}

\* what is left to do: the tokens behind the cursor, and within one cursor
\* position the declaration loop before the top-level loop before the end
Remaining ==
    3 * (Len(tokens) - pos)
        + (CASE pc = "points" -> 2 [] pc = "top" -> 1 [] OTHER -> 0)

\* a step is an iteration of the top-level loop or of the declaration loop
LoopIteration ==
    \/ AtStatement
    \/ pc = "points" /\ TypeAt(tokens, pos) = "POINT"

\* C17: the parse terminates, with a scene or with a failure: the cursor stays
\* within 0..len(tokens); a parse that has not ended can take a step that
\* changes its state; every step lowers what remains, a natural number, so no
\* parse runs forever; no step moves the cursor back; every iteration of the
\* top-level loop and of the declaration loop that does not fail moves the
\* cursor forward by at least one; a parse that has ended has either returned
\* a scene or raised, and takes no further step.
C17_ParseTerminates ==
    /\ [](pos \in 0..Len(tokens))
    /\ [](Ended \/ ENABLED <<Next>>_vars)
    /\ [](pc = "done" => result.returned /\ err = NoErr)
    /\ [](pc = "failed" => ~result.returned /\ err # NoErr)
    /\ [][/\ ~Ended
          /\ pos' >= pos
          /\ Remaining' < Remaining
          /\ Remaining' >= 0
          /\ (LoopIteration /\ pc' # "failed") => pos' >= pos + 1
         ]_vars

\* C17's case: a parse that went through both loops, several declarations in
\* one place-stmt and several statements, has come to its end
C17_Witness ==
    /\ pc = "done"
    /\ pos = Len(tokens)
    /\ CountTypes(tokens, {"PLACE", "BUILD", "CONNECT"}) >= 2
    /\ CountTypes(tokens, {"DOT"}) >= 1
    /\ Len(result.nodes) >= 4

----------------------------------------------------------------------------
(* Error precedence in shape statements. *)

\* the top-level loop is about to start a rect-stmt or a tri-stmt
AtShape ==
    /\ AtStatement
    /\ TypeAt(tokens, pos) = "BUILD"
    /\ TypeAt(tokens, pos + 1) \in {"RECTANGLE", "TRIANGLE"}

\* the number of IDs the shape statement at the cursor takes
Arity == IF TypeAt(tokens, pos + 1) = "RECTANGLE" THEN 4 ELSE 3

\* the tokens, present or not, where the shape statement at the cursor takes
\* its IDs: the kinds found there ("" behind the end)
IdKinds == [k \in 1..Arity |-> TypeAt(tokens, pos + 1 + k)]

\* the names the shape statement at the cursor gives, all its IDs present
IdNames == [k \in 1..Arity |-> tokens[pos + 2 + k].value]

\* C18 (as claimed): in a rect-stmt or tri-stmt a missing or wrong-kind token
\* yields a syntax error, whether or not an earlier ID of the statement is
\* undefined; with all IDs present an undefined name yields the
\* undefined-reference error, collinear or not as the registered points may be,
\* so that the collinearity error is raised only with all three names
\* registered.
C18_ShapeErrorPrecedence ==
    [][AtShape
       => /\ (\E k \in 1..Arity : IdKinds[k] # "ID")
             => pc' = "failed" /\ err'.type = "SyntaxError"
          /\ (/\ \A k \in 1..Arity : IdKinds[k] = "ID"
              /\ \E k \in 1..Arity : IdNames[k] \notin DOMAIN built_points)
             => pc' = "failed" /\ err'.what = "undefined"
          /\ err'.what = "collinear"
             => /\ Arity = 3
                /\ \A k \in 1..Arity :
                       IdKinds[k] = "ID" /\ IdNames[k] \in DOMAIN built_points
      ]_vars

----------------------------------------------------------------------------
(* Points bound at parse time. *)

\* the Point node of the given name emitted last among the first k nodes
LatestPointBefore(ns, k, name) ==
    ns[CHOOSE j \in 1..k :
           /\ ns[j].node = "Point" /\ ns[j].name = name
           /\ \A i \in (j + 1)..k : ~(ns[i].node = "Point" /\ ns[i].name = name)]

\* C19: a shape or line node holds, for each of its names, the point the name
\* had when the statement was parsed, the Point node of that name emitted last
\* before it; no step, a re-declaration included, changes a node emitted
\* before, shape or Point; the scene returned is the nodes emitted.
C19_ShapesBindAtParseTime ==
    /\ [](\A k \in 1..Len(nodes) :
              nodes[k].node # "Point"
              => \A r \in Range(RefsOf(nodes[k])) :
                     /\ \E j \in 1..(k - 1) :
                            nodes[j].node = "Point" /\ nodes[j].name = r.name
                     /\ r = LatestPointBefore(nodes, k - 1, r.name))
    /\ [](result.returned => result.nodes = nodes)
    /\ [][/\ Len(nodes') >= Len(nodes)
          /\ SubSeq(nodes', 1, Len(nodes)) = nodes
         ]_vars

\* C19's case: a returned scene with two Point nodes of one name and a shape
\* before the second whose point of that name is not the registry's last entry
C19_Witness ==
    /\ result.returned
    /\ \E k \in 1..Len(result.nodes) :
           /\ result.nodes[k].node # "Point"
           /\ \E r \in Range(RefsOf(result.nodes[k])) :
                  /\ built_points[r.name] # r
                  /\ \E i \in 1..(k - 1) : result.nodes[i] = r
                  /\ \E j \in (k + 1)..Len(result.nodes) :
                         /\ result.nodes[j].node = "Point"
                         /\ result.nodes[j].name = r.name
                         /\ result.nodes[j] = built_points[r.name]

----------------------------------------------------------------------------
(* Registry and scene. *)

\* the names of the Point nodes among ns
PointNames(ns) == {ns[k].name : k \in {j \in 1..Len(ns) : ns[j].node = "Point"}}

\* the parse is between two top-level statements, or has returned
AtBoundary == pc \in {"top", "done"}

\* C20: between top-level statements of a parse that has not failed, the
\* registry's keys are the names of the Point nodes emitted so far and each
\* key maps to the Point node of that name emitted last; the registry is empty
\* when the first token is examined; only steps inside a place-stmt change it.
C20_RegistryMatchesScene ==
    /\ [](AtBoundary
          => /\ DOMAIN built_points = PointNames(nodes)
             /\ \A n \in DOMAIN built_points :
                    built_points[n] = LatestPointBefore(nodes, Len(nodes), n))
    /\ []((pc = "top" /\ pos = 0) => DOMAIN built_points = {})
    /\ [][built_points' # built_points => pc = "points" /\ pc' # "failed"]_vars

\* C20's case: a statement boundary with further statements to come, behind a
\* re-declaration: two Point nodes of one name, the registry holding the second
C20_Witness ==
    /\ pc = "top"
    /\ pos < Len(tokens)
    /\ \E j \in 1..Len(nodes) : \E i \in 1..(j - 1) :
           /\ nodes[i].node = "Point" /\ nodes[j].node = "Point"
           /\ nodes[i].name = nodes[j].name
           /\ nodes[i] # nodes[j]
           /\ built_points[nodes[j].name] = nodes[j]

====
